---- MODULE Spec2Model ----
(***************************************************************************)
(* The export runner of AItracker_results: one run of main() drives a      *)
(* browser to the guest URL, opens the export popup, arms the capture      *)
(* listeners, clicks the trigger, captures the artifact and posts it to    *)
(* the webhook.  The repository holds several variants of the script; the  *)
(* variable `variant` selects which one a run executes:                    *)
(*   "replay"   src/src/run.js          download event / request replay    *)
(*   "race"     src/unnamed/part_003    download event / response race     *)
(*   "seq"      src/unnamed/part_004    download event, then response      *)
(*   "fallback" src/unnamed/part_000    download event, late second listen *)
(*   "basic"    src/unnamed/part_002    download event only                *)
(*   "cli"      src/unnamed/part_005    as "seq", configured by CLI flags  *)
(* Every await of main() is one step; the page, the site and the sink are  *)
(* the environment, drawn from small sets.  Writes to the downloads        *)
(* directory are taken to succeed.                                         *)
(***************************************************************************)
EXTENDS Integers, Sequences, FiniteSets, TLC

VARIABLES variant, cfg, pc, browser, context, navigated, clicked,
          dl, dlFired, dlName, rs, resp, nResp, timer, winner,
          fetched, downloads, posts, debugFiles, ts, clock,
          err, cause, exitCode, diag, missed, replays,
          argv, steps, inband, waits, dlDeadline, elapsed, errInfo,
          req, sent, conf, nameIn, nameOut, jsonUrlReply

vars == <<variant, cfg, pc, browser, context, navigated, clicked,
          dl, dlFired, dlName, rs, resp, nResp, timer, winner,
          fetched, downloads, posts, debugFiles, ts, clock,
          err, cause, exitCode, diag, missed, replays,
          argv, steps, inband, waits, dlDeadline, elapsed, errInfo,
          req, sent, conf, nameIn, nameOut, jsonUrlReply>>

(* ---------------------------------------------------------------- bounds *)
MaxClock == 2
MaxResponses == 2
MaxArgs == 3

(* --------------------------------------------------------------- strings *)
UpperChars == "ABCDEFGHIJKLMNOPQRSTUVWXYZ"
LowerChars == "abcdefghijklmnopqrstuvwxyz"

LowerChar(c) ==
  IF \E i \in 1..Len(UpperChars) : SubSeq(UpperChars, i, i) = c
  THEN LET i == CHOOSE k \in 1..Len(UpperChars) : SubSeq(UpperChars, k, k) = c
       IN  SubSeq(LowerChars, i, i)
  ELSE c

RECURSIVE ToLowerCase(_)
ToLowerCase(s) ==
  IF Len(s) = 0 THEN ""
  ELSE LowerChar(SubSeq(s, 1, 1)) \o ToLowerCase(SubSeq(s, 2, Len(s)))

Includes(s, sub) ==
  \E i \in 1..(Len(s) - Len(sub) + 1) : SubSeq(s, i, i + Len(sub) - 1) = sub

Max(a, b) == IF a > b THEN a ELSE b
Min(a, b) == IF a < b THEN a ELSE b

(* ---------------------------------------------------------- the variants *)
Variants == {"replay", "race", "seq", "fallback", "basic", "cli"}

\* part_004 and part_005: the download is awaited first, the response after it
Sequential(v) == v \in {"seq", "cli"}

\* requireEnv("WEBHOOK_URL") throws on an empty value; part_004 and part_005
\* read it with || "".
WebhookRequired(v) == ~Sequential(v)

\* main() has a catch block around the run (part_002 and part_000 have try/finally only).
HasCatch(v) == v \in {"replay", "race", "seq", "cli"}

\* the variant races a second listener against the download event
HasSecondListener(v) == v \in {"replay", "race", "seq", "cli"}

\* Promise.race over the two listeners and the timer
UsesRace(v) == v \in {"replay", "race"}

GuestUrl == "https://online.seranking.com/guest"
CliGuestUrl == "https://online.seranking.com/cli"

\* process.env of the run ("" stands for an unset variable); DEBUG is read by
\* part_004 and part_005 only
Configs == [guestUrl : {"", GuestUrl},
            webhookUrl : {"", "https://hooks.example/n8n"},
            debug : {"", "false"}]

(* ------------------------------------------- part_005: command-line flags *)

\* process.argv.slice(2) of the runs considered; only part_005 reads it
Argvs(v) ==
  IF v = "cli"
  THEN {<<>>, <<"--guestUrl", CliGuestUrl>>, <<"--guesturl", CliGuestUrl>>,
        <<"--guestUrl">>, <<"--debug", "false">>,
        <<"--guestUrl", CliGuestUrl, "--debug", "false">>}
  ELSE {<<>>}

StartsWith(s, prefix) == Len(s) >= Len(prefix) /\ SubSeq(s, 1, Len(prefix)) = prefix

\* o[k], "" standing for undefined
Field(o, k) == IF k \in DOMAIN o THEN o[k] ELSE ""

\* args[key] = val
SetArg(args, key, val) ==
  [k \in (DOMAIN args) \cup {key} |-> IF k = key THEN val ELSE args[k]]

\* the loop of parseArgs from index i on
RECURSIVE parseArgsFrom(_, _, _)
parseArgsFrom(av, i, args) ==
  IF i > Len(av) THEN args
  ELSE LET a == av[i]
           next == IF i + 1 <= Len(av) THEN av[i + 1] ELSE ""
       IN  IF ~StartsWith(a, "--") THEN parseArgsFrom(av, i + 1, args)
           ELSE IF next = "" \/ StartsWith(next, "--")
                THEN parseArgsFrom(av, i + 1, SetArg(args, SubSeq(a, 3, Len(a)), "true"))
                ELSE parseArgsFrom(av, i + 2, SetArg(args, SubSeq(a, 3, Len(a)), next))

parseArgs(av) == parseArgsFrom(av, 1, [k \in {} |-> ""])

\* (mutant: the right operand is preferred)
Or_RightFirst(a, b) == IF b # "" THEN b ELSE a

\* a || b on strings
Or(a, b) == IF a # "" THEN a ELSE b

\* (mutant: a missing guest URL falls back to a default page)
GuestUrlOf_Default(v, av, env) == "about:blank"

\* GUEST_URL: args.guestUrl || args.guesturl || process.env.SE_RANKING_GUEST_URL
\* in part_005, the environment variable alone elsewhere
GuestUrlOf(v, av, env) ==
  IF v = "cli"
  THEN Or(Field(parseArgs(av), "guestUrl"), Or(Field(parseArgs(av), "guesturl"), env.guestUrl))
  ELSE env.guestUrl

\* WEBHOOK_URL: args.webhookUrl || args.webhookurl || process.env.WEBHOOK_URL || ""
WebhookUrlOf(v, av, env) ==
  IF v = "cli"
  THEN Or(Field(parseArgs(av), "webhookUrl"), Or(Field(parseArgs(av), "webhookurl"), env.webhookUrl))
  ELSE env.webhookUrl

\* part_005: DEBUG = String(args.debug || process.env.DEBUG || "true").toLowerCase() === "true"
\* gates saveDebugArtifacts in the catch block.  The other variants write their
\* diagnostics unconditionally: part_004 computes DEBUG from process.env.DEBUG
\* and never reads it.
DebugOf(v, av, env) ==
  IF v = "cli"
  THEN ToLowerCase(Or(Field(parseArgs(av), "debug"), Or(env.debug, "true"))) = "true"
  ELSE TRUE

NoResp == [url |-> "", ct |-> "", cd |-> "", method |-> ""]
NoFetched == [ok |-> FALSE, ct |-> "", cd |-> "", buffer |-> "null", text |-> [kind |-> "null"]]
NoWinner == [kind |-> "pending", value |-> FALSE]
NoErrInfo == [status |-> 0, body |-> 0]
NoHeaders == [n \in {} |-> ""]
NoReq == [url |-> "", method |-> "", headers |-> NoHeaders, data |-> ""]
NoConf == [set |-> FALSE]
NoName == [path |-> "none"]

\* the state of a run before the first statement of main()
InitRun ==
  /\ pc = "config"
  /\ browser = "none"
  /\ context = "none"
  /\ navigated = FALSE
  /\ clicked = FALSE
  /\ dl = "off"
  /\ dlFired = FALSE
  /\ dlName = ""
  /\ rs = "off"
  /\ resp = NoResp
  /\ nResp = 0
  /\ timer = "off"
  /\ winner = NoWinner
  /\ fetched = NoFetched
  /\ downloads = <<>>
  /\ posts = <<>>
  /\ debugFiles = <<>>
  /\ ts = 0
  /\ clock = 0
  /\ err = "none"
  /\ cause = "none"
  /\ exitCode = -1
  /\ diag = "none"
  /\ missed = FALSE
  /\ replays = 0
  /\ steps = <<>>
  /\ inband = "unread"
  /\ waits = 0
  /\ dlDeadline = 0
  /\ elapsed = 0
  /\ errInfo = NoErrInfo
  /\ jsonUrlReply = FALSE

Init ==
  /\ variant \in Variants
  /\ cfg \in {c \in Configs : c.debug = "" \/ Sequential(variant)}
  /\ argv \in Argvs(variant)
  /\ req = NoReq
  /\ sent = NoReq
  /\ conf = NoConf
  /\ nameIn = NoName
  /\ nameOut = NoName
  /\ InitRun


(* ------------------------------------------------------------ error flow *)
\* Where a throw inside the try body of main() lands: the catch block when the
\* variant has one, else straight in the finally block.
ThrowPc(v) == IF HasCatch(v) THEN "catch" ELSE "closeCtx"

\* (mutant: the rejection handler logs but does not call process.exit(1))
ExitStatus_NoExitCall(e) == 0

\* main().catch(err => process.exit(1)); a run that ends without error exits 0.
ExitStatus(e) == IF e = "none" THEN 0 ELSE 1

Raise(e) ==
  /\ err' = e
  /\ cause' = IF cause = "none" THEN e ELSE cause
  /\ pc' = ThrowPc(variant)

\* a rejection outside the try block: main() rejects at once
Reject(e) ==
  /\ err' = e
  /\ cause' = IF cause = "none" THEN e ELSE cause
  /\ pc' = "settle"

(* ------------------------------------------------------------- bootstrap *)
\* requireEnv / process.env checks at the top of main()
LoadConfig ==
  /\ pc = "config"
  /\ IF \/ GuestUrlOf(variant, argv, cfg) = ""
        \/ (WebhookRequired(variant) /\ WebhookUrlOf(variant, argv, cfg) = "")
     THEN Reject("config")
     ELSE /\ pc' = "launch"
          /\ UNCHANGED <<err, cause>>
  /\ UNCHANGED <<steps, inband, waits, dlDeadline, elapsed, errInfo>>
  /\ UNCHANGED <<variant, cfg, argv, req, sent, conf, nameIn, nameOut, jsonUrlReply, browser, context, navigated, clicked,
                 dl, dlFired, dlName, rs, resp, nResp, timer, winner,
                 fetched, downloads, posts, debugFiles, ts, clock,
                 exitCode, diag, missed, replays>>

\* chromium.launch()
Launch ==
  /\ pc = "launch"
  /\ \E ok \in BOOLEAN :
       IF ok THEN /\ browser' = "open"
                  /\ pc' = "newContext"
                  /\ UNCHANGED <<err, cause>>
             ELSE /\ Reject("launch")
                  /\ UNCHANGED browser
  /\ UNCHANGED <<steps, inband, waits, dlDeadline, elapsed, errInfo>>
  /\ UNCHANGED <<variant, cfg, argv, req, sent, conf, nameIn, nameOut, jsonUrlReply, context, navigated, clicked,
                 dl, dlFired, dlName, rs, resp, nResp, timer, winner,
                 fetched, downloads, posts, debugFiles, ts, clock,
                 exitCode, diag, missed, replays>>

\* browser.newContext(); the call sits before the try block
NewContext ==
  /\ pc = "newContext"
  /\ \E ok \in BOOLEAN :
       IF ok THEN /\ context' = "open"
                  /\ pc' = "newPage"
                  /\ UNCHANGED <<err, cause>>
             ELSE /\ Reject("context")
                  /\ UNCHANGED context
  /\ UNCHANGED <<steps, inband, waits, dlDeadline, elapsed, errInfo>>
  /\ UNCHANGED <<variant, cfg, argv, req, sent, conf, nameIn, nameOut, jsonUrlReply, browser, navigated, clicked,
                 dl, dlFired, dlName, rs, resp, nResp, timer, winner,
                 fetched, downloads, posts, debugFiles, ts, clock,
                 exitCode, diag, missed, replays>>

\* context.newPage(); also before the try block
NewPage ==
  /\ pc = "newPage"
  /\ \E ok \in BOOLEAN :
       IF ok THEN /\ pc' = "goto"
                  /\ UNCHANGED <<err, cause>>
             ELSE Reject("page")
  /\ UNCHANGED <<steps, inband, waits, dlDeadline, elapsed, errInfo>>
  /\ UNCHANGED <<variant, cfg, argv, req, sent, conf, nameIn, nameOut, jsonUrlReply, browser, context, navigated, clicked,
                 dl, dlFired, dlName, rs, resp, nResp, timer, winner,
                 fetched, downloads, posts, debugFiles, ts, clock,
                 exitCode, diag, missed, replays>>

(* --------------------------------------------------------- UI navigation *)
\* page.goto(guestUrl); first statement of the try block
Goto ==
  /\ pc = "goto"
  /\ \E ok \in BOOLEAN :
       IF ok THEN /\ navigated' = TRUE
                  /\ steps' = Append(steps, "navigated")
                  /\ pc' = IF variant = "fallback" THEN "locateTrigger" ELSE "openUi"
                  /\ UNCHANGED <<err, cause>>
             ELSE /\ Raise("nav")
                  /\ UNCHANGED <<navigated, steps>>
  /\ UNCHANGED <<inband, waits, dlDeadline, elapsed, errInfo>>
  /\ UNCHANGED <<variant, cfg, argv, req, sent, conf, nameIn, nameOut, jsonUrlReply, browser, context, clicked,
                 dl, dlFired, dlName, rs, resp, nResp, timer, winner,
                 fetched, downloads, posts, debugFiles, ts, clock,
                 exitCode, diag, missed, replays>>

\* topExportBtn.waitFor(); topExportBtn.click(); popup waitFor
OpenExportUi ==
  /\ pc = "openUi"
  /\ \E ok \in BOOLEAN :
       IF ok THEN /\ pc' = "selectFormat"
                  /\ steps' = Append(steps, "export-ui-opened")
                  /\ UNCHANGED <<err, cause>>
             ELSE /\ Raise("ui")
                  /\ UNCHANGED steps
  /\ UNCHANGED <<inband, waits, dlDeadline, elapsed, errInfo>>
  /\ UNCHANGED <<variant, cfg, argv, req, sent, conf, nameIn, nameOut, jsonUrlReply, browser, context, navigated, clicked,
                 dl, dlFired, dlName, rs, resp, nResp, timer, winner,
                 fetched, downloads, posts, debugFiles, ts, clock,
                 exitCode, diag, missed, replays>>

\* click on the CSV or the Excel tile
SelectFormat ==
  /\ pc = "selectFormat"
  /\ \E ok \in BOOLEAN :
       IF ok THEN /\ pc' = IF variant = "basic" THEN "armDownload" ELSE "locateTrigger"
                  /\ steps' = Append(steps, "format-selected")
                  /\ UNCHANGED <<err, cause>>
             ELSE /\ Raise("ui")
                  /\ UNCHANGED steps
  /\ UNCHANGED <<inband, waits, dlDeadline, elapsed, errInfo>>
  /\ UNCHANGED <<variant, cfg, argv, req, sent, conf, nameIn, nameOut, jsonUrlReply, browser, context, navigated, clicked,
                 dl, dlFired, dlName, rs, resp, nResp, timer, winner,
                 fetched, downloads, posts, debugFiles, ts, clock,
                 exitCode, diag, missed, replays>>

\* finalBtn.waitFor({ state: "visible" }) (part_000: exportBtn.waitFor)
LocateTrigger ==
  /\ pc = "locateTrigger"
  /\ \E ok \in BOOLEAN :
       IF ok THEN /\ pc' = "armDownload"
                  /\ UNCHANGED <<err, cause>>
             ELSE Raise("ui")
  /\ UNCHANGED <<steps, inband, waits, dlDeadline, elapsed, errInfo>>
  /\ UNCHANGED <<variant, cfg, argv, req, sent, conf, nameIn, nameOut, jsonUrlReply, browser, context, navigated, clicked,
                 dl, dlFired, dlName, rs, resp, nResp, timer, winner,
                 fetched, downloads, posts, debugFiles, ts, clock,
                 exitCode, diag, missed, replays>>

(* ------------------------------------------------ the site's traffic *)
ExportUrl == "/api.llm_rankings.rankings.export.html?do=download"
ImageUrl == "/img/download.png"
PageUrl == "/rankings"
Urls == {ExportUrl, ImageUrl, PageUrl}

CsvType == "text/csv; charset=UTF-8"
ImageType == "image/png"
ContentTypes == {CsvType, ImageType}

Attachment == "attachment; filename=\"report.csv\""
ContentDispositions == {"", Attachment}

\* responses the page can receive while the response listener is armed
Responses == [url : Urls, ct : ContentTypes, cd : ContentDispositions, method : {"GET"}]

\* requests the page can issue while the request listener is armed (run.js)
Requests == [url : Urls, ct : {""}, cd : {""}, method : {"GET", "POST", "OPTIONS"}]

Traffic(v) == IF v = "replay" THEN Requests ELSE Responses

IsImage(ct) == Includes(ToLowerCase(ct), "image/")

looksLikeExportUrl(url) ==
  LET u == ToLowerCase(url)
  IN  Includes(u, "export") \/ Includes(u, "download") \/ Includes(u, "file")

looksLikeFileType(ct) ==
  LET t == ToLowerCase(ct)
  IN  \/ Includes(t, "text/csv")
      \/ Includes(t, "spreadsheetml")
      \/ Includes(t, "application/vnd.ms-excel")

isAttachment(cd) == cd # "" /\ Includes(ToLowerCase(cd), "attachment")

\* part_003: the predicate handed to page.waitForResponse
responseWaitPredicate(r) ==
  IF isAttachment(r.cd) THEN TRUE
  ELSE looksLikeExportUrl(r.url) /\ looksLikeFileType(r.ct)

\* part_004: the predicate of csvResponsePromise
csvResponsePredicate(r) ==
  /\ Includes(r.url, "api.llm_rankings.rankings.export.html")
  /\ Includes(r.url, "do=download")
  /\ Includes(ToLowerCase(r.ct), "text/csv")

\* run.js: the predicate handed to page.waitForRequest
exportRequestPredicate(r) ==
  looksLikeExportUrl(r.url) /\ r.method \in {"POST", "GET"}

Matches(v, r) ==
  CASE v = "race" -> responseWaitPredicate(r)
    [] Sequential(v) -> csvResponsePredicate(r)
    [] v = "replay" -> exportRequestPredicate(r)
    [] OTHER -> FALSE

(* -------------------------------------------------- arming and the click *)
\* context.waitForEvent("download") / page.waitForEvent("download")
ArmDownload ==
  /\ pc = "armDownload"
  /\ dl' = "armed"
  /\ waits' = waits + 1
  /\ dlDeadline' = elapsed + 1
  /\ pc' = IF HasSecondListener(variant) THEN "armResponse" ELSE "click"
  /\ UNCHANGED <<steps, inband, elapsed, errInfo>>
  /\ UNCHANGED <<variant, cfg, argv, req, sent, conf, nameIn, nameOut, jsonUrlReply, browser, context, navigated, clicked,
                 dlFired, dlName, rs, resp, nResp, timer, winner,
                 fetched, downloads, posts, debugFiles, ts, clock,
                 err, cause, exitCode, diag, missed, replays>>

\* page.waitForResponse(predicate) / page.waitForRequest(predicate)
ArmResponse ==
  /\ pc = "armResponse"
  /\ rs' = "armed"
  /\ pc' = "click"
  /\ UNCHANGED <<steps, inband, waits, dlDeadline, elapsed, errInfo>>
  /\ UNCHANGED <<variant, cfg, argv, req, sent, conf, nameIn, nameOut, jsonUrlReply, browser, context, navigated, clicked,
                 dl, dlFired, dlName, resp, nResp, timer, winner,
                 fetched, downloads, posts, debugFiles, ts, clock,
                 err, cause, exitCode, diag, missed, replays>>

\* the trigger click is issued
Click ==
  /\ pc = "click"
  /\ clicked' = TRUE
  /\ steps' = Append(steps, IF variant = "fallback" THEN "export-ui-opened" ELSE "triggered")
  /\ pc' = "clicking"
  /\ UNCHANGED <<inband, waits, dlDeadline, elapsed, errInfo>>
  /\ UNCHANGED <<variant, cfg, argv, req, sent, conf, nameIn, nameOut, jsonUrlReply, browser, context, navigated,
                 dl, dlFired, dlName, rs, resp, nResp, timer, winner,
                 fetched, downloads, posts, debugFiles, ts, clock,
                 err, cause, exitCode, diag, missed, replays>>

\* the awaited click settles
ClickDone ==
  /\ pc = "clicking"
  /\ \E ok \in BOOLEAN :
       IF ok THEN /\ pc' = CASE UsesRace(variant) -> "race"
                             [] variant = "fallback" -> "maybeClicks"
                             [] OTHER -> "awaitDownload"
                  /\ steps' = IF variant = "fallback" THEN steps
                               ELSE Append(steps, "capturing")
                  /\ UNCHANGED <<err, cause>>
             ELSE /\ Raise("ui")
                  /\ UNCHANGED steps
  /\ UNCHANGED <<inband, waits, dlDeadline, elapsed, errInfo>>
  /\ UNCHANGED <<variant, cfg, argv, req, sent, conf, nameIn, nameOut, jsonUrlReply, browser, context, navigated, clicked,
                 dl, dlFired, dlName, rs, resp, nResp, timer, winner,
                 fetched, downloads, posts, debugFiles, ts, clock,
                 exitCode, diag, missed, replays>>

(* ------------------------------------------------ environment: the events *)
\* the part of main() in which the outcome of a wait can still matter to the run
Capturing ==
  pc \in {"clicking", "race", "racing", "raceDone", "maybeClicks", "awaitDownload",
          "awaitResponse", "fallbackClick", "armDownload2", "awaitDownload2"}

\* the browser emits a download event
EnvDownload ==
  /\ Capturing
  /\ clicked
  /\ ~dlFired
  /\ dlFired' = TRUE
  /\ \E name \in {"", "rankings.csv"} :
       CASE dl = "armed" ->
              /\ dl' = "got"
              /\ dlName' = name
              /\ UNCHANGED missed
              /\ IF pc = "racing"
                 THEN /\ winner' = [kind |-> "download", value |-> TRUE]
                      /\ pc' = "raceDone"
                 ELSE UNCHANGED <<winner, pc>>
         [] dl = "off" ->
              /\ missed' = TRUE
              /\ UNCHANGED <<dl, dlName, winner, pc>>
         [] OTHER -> UNCHANGED <<dl, dlName, missed, winner, pc>>
  /\ UNCHANGED <<steps, inband, waits, dlDeadline, elapsed, errInfo>>
  /\ UNCHANGED <<variant, cfg, argv, req, sent, conf, nameIn, nameOut, jsonUrlReply, browser, context, navigated, clicked,
                 rs, resp, nResp, timer,
                 fetched, downloads, posts, debugFiles, ts, clock,
                 err, cause, exitCode, diag, replays>>

\* the page sees a response (run.js: a request) while the listener is armed
EnvResponse ==
  /\ Capturing
  /\ rs = "armed"
  /\ nResp < MaxResponses
  /\ nResp' = nResp + 1
  /\ \E r \in Traffic(variant) :
       IF Matches(variant, r)
       THEN /\ rs' = "got"
            /\ resp' = r
            /\ IF pc = "racing"
               THEN /\ winner' = [kind |-> "response", value |-> TRUE]
                    /\ pc' = "raceDone"
               ELSE UNCHANGED <<winner, pc>>
       ELSE UNCHANGED <<rs, resp, winner, pc>>
  /\ UNCHANGED <<steps, inband, waits, dlDeadline, elapsed, errInfo>>
  /\ UNCHANGED <<variant, cfg, argv, req, sent, conf, nameIn, nameOut, jsonUrlReply, browser, context, navigated, clicked,
                 dl, dlFired, dlName, timer,
                 fetched, downloads, posts, debugFiles, ts, clock,
                 err, cause, exitCode, diag, missed, replays>>

\* the download wait times out or errors: .catch(() => null)
DownloadWaitEnds ==
  /\ Capturing
  /\ dl = "armed"
  /\ dl' = "null"
  /\ elapsed' = Max(elapsed, dlDeadline)
  /\ IF pc = "racing"
     THEN /\ winner' = [kind |-> "download", value |-> FALSE]
          /\ pc' = "raceDone"
     ELSE UNCHANGED <<winner, pc>>
  /\ UNCHANGED <<steps, inband, waits, dlDeadline, errInfo>>
  /\ UNCHANGED <<variant, cfg, argv, req, sent, conf, nameIn, nameOut, jsonUrlReply, browser, context, navigated, clicked,
                 dlFired, dlName, rs, resp, nResp, timer,
                 fetched, downloads, posts, debugFiles, ts, clock,
                 err, cause, exitCode, diag, missed, replays>>

\* the response wait times out or errors: .catch(() => null)
ResponseWaitEnds ==
  /\ Capturing
  /\ rs = "armed"
  /\ rs' = "null"
  /\ elapsed' = Max(elapsed, 1)
  /\ IF pc = "racing"
     THEN /\ winner' = [kind |-> "response", value |-> FALSE]
          /\ pc' = "raceDone"
     ELSE UNCHANGED <<winner, pc>>
  /\ UNCHANGED <<steps, inband, waits, dlDeadline, errInfo>>
  /\ UNCHANGED <<variant, cfg, argv, req, sent, conf, nameIn, nameOut, jsonUrlReply, browser, context, navigated, clicked,
                 dl, dlFired, dlName, resp, nResp, timer,
                 fetched, downloads, posts, debugFiles, ts, clock,
                 err, cause, exitCode, diag, missed, replays>>

\* the setTimeout of the race fires
TimerFires ==
  /\ Capturing \/ pc = "settle"
  /\ timer = "armed"
  /\ timer' = "fired"
  /\ elapsed' = Max(elapsed, 1)
  /\ IF pc = "racing"
     THEN /\ winner' = [kind |-> "none", value |-> FALSE]
          /\ pc' = "raceDone"
     ELSE UNCHANGED <<winner, pc>>
  /\ UNCHANGED <<steps, inband, waits, dlDeadline, errInfo>>
  /\ UNCHANGED <<variant, cfg, argv, req, sent, conf, nameIn, nameOut, jsonUrlReply, browser, context, navigated, clicked,
                 dl, dlFired, dlName, rs, resp, nResp,
                 fetched, downloads, posts, debugFiles, ts, clock,
                 err, cause, exitCode, diag, missed, replays>>

(* ------------------------------------------------------------ the capture *)
\* Promise.race([downloadWait.then, responseWait.then, timer]): a wait that
\* settled during the click is seen first, the download wait before the other
RaceStart ==
  /\ pc = "race"
  /\ timer' = "armed"
  /\ IF dl \in {"got", "null"}
     THEN /\ winner' = [kind |-> "download", value |-> (dl = "got")]
          /\ pc' = "raceDone"
     ELSE IF rs \in {"got", "null"}
          THEN /\ winner' = [kind |-> "response", value |-> (rs = "got")]
               /\ pc' = "raceDone"
          ELSE /\ pc' = "racing"
               /\ UNCHANGED winner
  /\ UNCHANGED <<steps, inband, waits, dlDeadline, elapsed, errInfo>>
  /\ UNCHANGED <<variant, cfg, argv, req, sent, conf, nameIn, nameOut, jsonUrlReply, browser, context, navigated, clicked,
                 dl, dlFired, dlName, rs, resp, nResp,
                 fetched, downloads, posts, debugFiles, ts, clock,
                 err, cause, exitCode, diag, missed, replays>>

\* the if-chain after the race
RaceBranch ==
  /\ pc = "raceDone"
  /\ IF winner.kind = "download" /\ winner.value
     THEN /\ pc' = "saveDownload"
          /\ UNCHANGED <<err, cause>>
     ELSE IF winner.kind = "response" /\ winner.value
          THEN /\ pc' = IF variant = "replay" THEN "replayFetch" ELSE "readBody"
               /\ UNCHANGED <<err, cause>>
          ELSE Raise("noArtifact")
  /\ UNCHANGED <<steps, inband, waits, dlDeadline, elapsed, errInfo>>
  /\ UNCHANGED <<variant, cfg, argv, req, sent, conf, nameIn, nameOut, jsonUrlReply, browser, context, navigated, clicked,
                 dl, dlFired, dlName, rs, resp, nResp, timer, winner,
                 fetched, downloads, posts, debugFiles, ts, clock,
                 exitCode, diag, missed, replays>>

\* const dl = await downloadPromise (part_002: the wait has no catch and rejects)
AwaitDownload ==
  /\ pc = "awaitDownload"
  /\ dl \in {"got", "null"}
  /\ IF dl = "got"
     THEN /\ pc' = "saveDownload"
          /\ UNCHANGED <<err, cause>>
     ELSE CASE Sequential(variant) -> /\ pc' = "awaitResponse"
                                  /\ UNCHANGED <<err, cause>>
            [] variant = "fallback" -> /\ pc' = "fallbackClick"
                                       /\ UNCHANGED <<err, cause>>
            [] OTHER -> Raise("noArtifact")
  /\ UNCHANGED <<steps, inband, waits, dlDeadline, elapsed, errInfo>>
  /\ UNCHANGED <<variant, cfg, argv, req, sent, conf, nameIn, nameOut, jsonUrlReply, browser, context, navigated, clicked,
                 dl, dlFired, dlName, rs, resp, nResp, timer, winner,
                 fetched, downloads, posts, debugFiles, ts, clock,
                 exitCode, diag, missed, replays>>

\* const resp = await csvResponsePromise
AwaitResponse ==
  /\ pc = "awaitResponse"
  /\ rs \in {"got", "null"}
  /\ IF rs = "got"
     THEN /\ pc' = "readBody"
          /\ UNCHANGED <<err, cause>>
     ELSE Raise("noArtifact")
  /\ UNCHANGED <<steps, inband, waits, dlDeadline, elapsed, errInfo>>
  /\ UNCHANGED <<variant, cfg, argv, req, sent, conf, nameIn, nameOut, jsonUrlReply, browser, context, navigated, clicked,
                 dl, dlFired, dlName, rs, resp, nResp, timer, winner,
                 fetched, downloads, posts, debugFiles, ts, clock,
                 exitCode, diag, missed, replays>>

\* part_000: the maybeClick calls for the format and the confirmation; they never throw
MaybeClicks ==
  /\ pc = "maybeClicks"
  /\ \E formatClicked \in BOOLEAN, confirmClicked \in BOOLEAN :
       steps' = steps \o (IF formatClicked THEN <<"format-selected">> ELSE <<>>)
                      \o (IF confirmClicked THEN <<"triggered">> ELSE <<>>)
                      \o <<"capturing">>
  /\ pc' = "awaitDownload"
  /\ UNCHANGED <<inband, waits, dlDeadline, elapsed, errInfo>>
  /\ UNCHANGED <<variant, cfg, argv, req, sent, conf, nameIn, nameOut, jsonUrlReply, browser, context, navigated, clicked,
                 dl, dlFired, dlName, rs, resp, nResp, timer, winner,
                 fetched, downloads, posts, debugFiles, ts, clock,
                 err, cause, exitCode, diag, missed, replays>>

\* part_000: after a null download, wait 4 s and try to click a download control;
\* the first wait is used up, no listener is registered for this click
FallbackClick ==
  /\ pc = "fallbackClick"
  /\ \E downloadBtnClicked \in BOOLEAN :
       IF downloadBtnClicked
       THEN /\ dl' = "off"
            /\ dlFired' = FALSE
            /\ pc' = "armDownload2"
       ELSE /\ pc' = "noDownload"
            /\ UNCHANGED <<dl, dlFired>>
  /\ UNCHANGED <<steps, inband, waits, dlDeadline, elapsed, errInfo>>
  /\ UNCHANGED <<variant, cfg, argv, req, sent, conf, nameIn, nameOut, jsonUrlReply, browser, context, navigated, clicked,
                 dlName, rs, resp, nResp, timer, winner,
                 fetched, downloads, posts, debugFiles, ts, clock,
                 err, cause, exitCode, diag, missed, replays>>

\* part_000: context.waitForEvent("download") registered after the click
ArmDownload2 ==
  /\ pc = "armDownload2"
  /\ dl' = "armed"
  /\ waits' = waits + 1
  /\ dlDeadline' = elapsed + 1
  /\ pc' = "awaitDownload2"
  /\ UNCHANGED <<steps, inband, elapsed, errInfo>>
  /\ UNCHANGED <<variant, cfg, argv, req, sent, conf, nameIn, nameOut, jsonUrlReply, browser, context, navigated, clicked,
                 dlFired, dlName, rs, resp, nResp, timer, winner,
                 fetched, downloads, posts, debugFiles, ts, clock,
                 err, cause, exitCode, diag, missed, replays>>

\* part_000: download = await context.waitForEvent(...).catch(() => null)
AwaitDownload2 ==
  /\ pc = "awaitDownload2"
  /\ dl \in {"got", "null"}
  /\ pc' = IF dl = "got" THEN "saveDownload" ELSE "noDownload"
  /\ UNCHANGED <<steps, inband, waits, dlDeadline, elapsed, errInfo>>
  /\ UNCHANGED <<variant, cfg, argv, req, sent, conf, nameIn, nameOut, jsonUrlReply, browser, context, navigated, clicked,
                 dl, dlFired, dlName, rs, resp, nResp, timer, winner,
                 fetched, downloads, posts, debugFiles, ts, clock,
                 err, cause, exitCode, diag, missed, replays>>

\* part_000: if (!download) { debug artefacts; throw }
NoDownload ==
  /\ pc = "noDownload"
  /\ cause' = "noArtifact"
  /\ pc' = "dbgStart"
  /\ UNCHANGED <<steps, inband, waits, dlDeadline, elapsed, errInfo>>
  /\ UNCHANGED <<variant, cfg, argv, req, sent, conf, nameIn, nameOut, jsonUrlReply, browser, context, navigated, clicked,
                 dl, dlFired, dlName, rs, resp, nResp, timer, winner,
                 fetched, downloads, posts, debugFiles, ts, clock,
                 err, exitCode, diag, missed, replays>>

\* download.saveAs(filePath)
SaveDownload ==
  /\ pc = "saveDownload"
  /\ downloads' = Append(downloads, [method |-> "download-event", len |-> 1, ct |-> ""])
  /\ steps' = Append(steps, "captured")
  /\ pc' = "deliver"
  /\ UNCHANGED <<inband, waits, dlDeadline, elapsed, errInfo>>
  /\ UNCHANGED <<variant, cfg, argv, req, sent, conf, nameIn, nameOut, jsonUrlReply, browser, context, navigated, clicked,
                 dl, dlFired, dlName, rs, resp, nResp, timer, winner,
                 fetched, posts, debugFiles, ts, clock,
                 err, cause, exitCode, diag, missed, replays>>

\* the response branch: read the body, reject an empty one, write the file
\* (part_004 turns a failing body() into an empty buffer, part_003 lets it throw)
ReadBody ==
  /\ pc = "readBody"
  /\ \E bodyThrows \in BOOLEAN, len \in {0, 1} :
       IF bodyThrows /\ variant = "race"
       THEN /\ Raise("body")
            /\ inband' = "failed"
            /\ UNCHANGED <<downloads, steps>>
       ELSE IF bodyThrows \/ len = 0
            THEN /\ Raise("emptyBody")
                 /\ inband' = "empty"
                 /\ UNCHANGED <<downloads, steps>>
            ELSE /\ downloads' = Append(downloads, [method |-> "attachment-response",
                                                    len |-> len, ct |-> resp.ct])
                 /\ inband' = "bytes"
                 /\ steps' = Append(steps, "captured")
                 /\ pc' = "deliver"
                 /\ UNCHANGED <<err, cause>>
  /\ UNCHANGED <<waits, dlDeadline, elapsed, errInfo>>
  /\ UNCHANGED <<variant, cfg, argv, req, sent, conf, nameIn, nameOut, jsonUrlReply, browser, context, navigated, clicked,
                 dl, dlFired, dlName, rs, resp, nResp, timer, winner,
                 fetched, posts, debugFiles, ts, clock,
                 exitCode, diag, missed, replays>>

(* ------------------------------------------------- run.js: request replay *)
NullText == [kind |-> "null"]
EmptyContent == [kind |-> "empty"]
BytesContent == [kind |-> "bytes"]
JsonWithUrl == [kind |-> "json", obj |-> [download_url |-> "https://cdn.example/export.csv"]]
JsonNoHttp == [kind |-> "json", obj |-> [url |-> "/relative/export.csv"]]
Contents == {EmptyContent, BytesContent, JsonWithUrl, JsonNoHttp}

JsonType == "application/json"

Nested(o, k1, k2) == IF k1 \in DOMAIN o THEN Field(o[k1], k2) ELSE ""

\* "" stands for null
findDownloadUrlInJsonText(txt) ==
  IF txt.kind # "json" THEN ""
  ELSE LET j == txt.obj
           candidates == SelectSeq(
             << Field(j, "download_url"), Field(j, "downloadUrl"), Field(j, "file_url"),
                Field(j, "fileUrl"), Field(j, "url"), Nested(j, "result", "url"),
                Nested(j, "data", "url"), Nested(j, "data", "download_url"),
                Nested(j, "data", "downloadUrl") >>,
             LAMBDA x : x # "")
           http == SelectSeq(candidates, LAMBDA x : StartsWith(x, "http"))
       IN  IF Len(http) > 0 THEN http[1] ELSE ""

\* what fetchLikeBrowser returns for a reply of the server: the text is read
\* only when the buffer is missing or empty
fetchLikeBrowser(ok, ct, cd, content, bodyThrows, textThrows) ==
  LET buffer == IF bodyThrows THEN "null"
                ELSE IF content.kind = "empty" THEN "empty" ELSE "bytes"
      text == IF buffer = "bytes" \/ textThrows THEN NullText ELSE content
  IN  [ok |-> ok, ct |-> ct, cd |-> cd, buffer |-> buffer, text |-> text]

\* fetched = await fetchLikeBrowser(context, exportReq, exportTimeoutMs)
ReplayFetch ==
  /\ pc = "replayFetch"
  /\ replays' = replays + 1
  /\ \E fetchThrows \in BOOLEAN :
       IF fetchThrows
       THEN /\ Raise("replay")
            /\ UNCHANGED <<fetched, jsonUrlReply>>
       ELSE /\ \E ok \in BOOLEAN, ct \in ContentTypes \cup {JsonType}, cd \in ContentDispositions,
                  content \in Contents, bodyThrows \in BOOLEAN, textThrows \in BOOLEAN :
                  /\ fetched' = fetchLikeBrowser(ok, ct, cd, content, bodyThrows, textThrows)
                  /\ jsonUrlReply' = (ok /\ findDownloadUrlInJsonText(content) # "")
            /\ pc' = "replayBranch"
            /\ UNCHANGED <<err, cause>>
  /\ UNCHANGED <<steps, inband, waits, dlDeadline, elapsed, errInfo>>
  /\ UNCHANGED <<variant, cfg, argv, req, sent, conf, nameIn, nameOut, browser, context, navigated, clicked,
                 dl, dlFired, dlName, rs, resp, nResp, timer, winner,
                 downloads, posts, debugFiles, ts, clock,
                 exitCode, diag, missed>>

\* steps 5 to 7 of run.js: bytes of the replay, else a download URL in JSON, else throw
ReplayBranch ==
  /\ pc = "replayBranch"
  /\ IF /\ fetched.ok
        /\ (isAttachment(fetched.cd) \/ looksLikeFileType(fetched.ct))
        /\ fetched.buffer = "bytes"
     THEN /\ downloads' = Append(downloads, [method |-> "request-fetch-bytes",
                                             len |-> 1, ct |-> fetched.ct])
          /\ steps' = Append(steps, "captured")
          /\ pc' = "deliver"
          /\ UNCHANGED <<err, cause>>
     ELSE IF fetched.ok /\ findDownloadUrlInJsonText(fetched.text) # ""
          THEN /\ pc' = "fetchUrl"
               /\ UNCHANGED <<err, cause, downloads, steps>>
          ELSE /\ Raise("noFile")
               /\ UNCHANGED <<downloads, steps>>
  /\ UNCHANGED <<inband, waits, dlDeadline, elapsed, errInfo>>
  /\ UNCHANGED <<variant, cfg, argv, req, sent, conf, nameIn, nameOut, jsonUrlReply, browser, context, navigated, clicked,
                 dl, dlFired, dlName, rs, resp, nResp, timer, winner,
                 fetched, posts, debugFiles, ts, clock,
                 exitCode, diag, missed, replays>>

\* step 6 of run.js: res2 = context.request.get(downloadUrlFromJson); the body
\* is written whatever its length
FetchUrl ==
  /\ pc = "fetchUrl"
  /\ \E out \in {"throws", "notOk", "ok"} :
       IF out = "ok"
       THEN /\ \E ct2 \in ContentTypes, len2 \in {0, 1} :
                 downloads' = Append(downloads, [method |-> "json-to-download-url",
                                                 len |-> len2, ct |-> ct2])
            /\ steps' = Append(steps, "captured")
            /\ pc' = "deliver"
            /\ UNCHANGED <<err, cause>>
       ELSE /\ Raise("urlFetch")
            /\ UNCHANGED <<downloads, steps>>
  /\ UNCHANGED <<inband, waits, dlDeadline, elapsed, errInfo>>
  /\ UNCHANGED <<variant, cfg, argv, req, sent, conf, nameIn, nameOut, jsonUrlReply, browser, context, navigated, clicked,
                 dl, dlFired, dlName, rs, resp, nResp, timer, winner,
                 fetched, posts, debugFiles, ts, clock,
                 exitCode, diag, missed, replays>>

(* ---------------------------------------------------------------- delivery *)
\* (mutant: the test of WEBHOOK_URL is dropped)
ShouldDeliver_Always(v, webhookUrl) == TRUE

\* part_004, part_005: if (WEBHOOK_URL) postToWebhook(...); the others always
\* call uploadFile
ShouldDeliver(v, webhookUrl) == ~Sequential(v) \/ webhookUrl # ""

\* the sink's answer: a success status, a failure status, or no answer (0)
Statuses == {200, 500, 0}
IsOk(status) == status >= 200 /\ status <= 299

\* status of a POST that has not been answered yet
Pending == -1

\* txt.slice(0, 500) in postToWebhook
SliceLimit == 500

\* lengths of the response text of the sink
ReplyBodies == {0, SliceLimit + 1}

\* length of the body text carried by the error of a failed delivery:
\* postToWebhook slices it, uploadFile puts the whole text in the message
ErrorBody(v, len) == IF Sequential(v) THEN Min(len, SliceLimit) ELSE len

\* the `method` entry of extraFields: run.js and part_003 write the literal of
\* the branch that saved the file; the other variants send no such field ("")
MethodField(v, m) == IF v \in {"replay", "race"} THEN m ELSE ""

\* uploadFile / postToWebhook: the POST is sent with fetch, no timeout is given
Deliver ==
  /\ pc = "deliver"
  /\ IF ShouldDeliver(variant, WebhookUrlOf(variant, argv, cfg))
     THEN /\ posts' = Append(posts, [method |-> MethodField(variant, downloads[Len(downloads)].method),
                                     len |-> downloads[Len(downloads)].len,
                                     status |-> Pending])
          /\ pc' = "delivering"
     ELSE /\ pc' = "closeCtx"
          /\ UNCHANGED posts
  /\ UNCHANGED <<steps, inband, waits, dlDeadline, elapsed, errInfo>>
  /\ UNCHANGED <<variant, cfg, argv, req, sent, conf, nameIn, nameOut, jsonUrlReply, browser, context, navigated, clicked,
                 dl, dlFired, dlName, rs, resp, nResp, timer, winner,
                 fetched, downloads, debugFiles, ts, clock,
                 err, cause, exitCode, diag, missed, replays>>

\* the sink answers (status 0: the fetch is rejected, there is no answer to read):
\* res.ok returns, anything else throws with the status and the body text
SinkReplies ==
  /\ pc = "delivering"
  /\ \E status \in Statuses, body \in ReplyBodies :
       /\ posts' = [posts EXCEPT ![Len(posts)].status = status]
       /\ IF IsOk(status)
          THEN /\ steps' = Append(steps, "delivered")
               /\ pc' = "closeCtx"
               /\ UNCHANGED <<err, cause, errInfo>>
          ELSE /\ Raise("delivery")
               /\ errInfo' = IF status = 0 THEN NoErrInfo
                              ELSE [status |-> status, body |-> ErrorBody(variant, body)]
               /\ UNCHANGED steps
  /\ UNCHANGED <<inband, waits, dlDeadline, elapsed>>
  /\ UNCHANGED <<variant, cfg, argv, req, sent, conf, nameIn, nameOut, jsonUrlReply, browser, context, navigated, clicked,
                 dl, dlFired, dlName, rs, resp, nResp, timer, winner,
                 fetched, downloads, debugFiles, ts, clock,
                 exitCode, diag, missed, replays>>

(* ------------------------------------------------------------- diagnostics *)
\* new Date() advances while the diagnostics step runs (the clock is read nowhere else)
Tick ==
  /\ diag = "running"
  /\ clock < MaxClock
  /\ clock' = clock + 1
  /\ UNCHANGED <<steps, inband, waits, dlDeadline, elapsed, errInfo>>
  /\ UNCHANGED <<variant, cfg, argv, req, sent, conf, nameIn, nameOut, jsonUrlReply, pc, browser, context, navigated, clicked,
                 dl, dlFired, dlName, rs, resp, nResp, timer, winner,
                 fetched, downloads, posts, debugFiles, ts,
                 err, cause, exitCode, diag, missed, replays>>

\* catch (err) { writeDebugArtifacts(page) }: the timestamp is taken once, the
\* names of all the files are built from it
DbgStart ==
  /\ pc \in {"catch", "dbgStart"}
  /\ IF DebugOf(variant, argv, cfg)
     THEN /\ ts' = clock
          /\ diag' = "running"
          /\ pc' = "dbgShot"
     ELSE /\ pc' = "closeCtx"
          /\ UNCHANGED <<ts, diag>>
  /\ UNCHANGED <<steps, inband, waits, dlDeadline, elapsed, errInfo>>
  /\ UNCHANGED <<variant, cfg, argv, req, sent, conf, nameIn, nameOut, jsonUrlReply, browser, context, navigated, clicked,
                 dl, dlFired, dlName, rs, resp, nResp, timer, winner,
                 fetched, downloads, posts, debugFiles, clock,
                 err, cause, exitCode, missed, replays>>

\* page.screenshot(): a failure is swallowed by .catch(() => {}); in
\* saveDebugArtifacts it leaves the function through its catch
DbgShot ==
  /\ pc = "dbgShot"
  /\ \E ok \in BOOLEAN :
       IF ok
       THEN /\ debugFiles' = Append(debugFiles, [kind |-> "png", stamp |-> ts])
            /\ pc' = "dbgHtml"
       ELSE /\ pc' = IF Sequential(variant) THEN "dbgEnd" ELSE "dbgHtml"
            /\ UNCHANGED debugFiles
  /\ UNCHANGED <<steps, inband, waits, dlDeadline, elapsed, errInfo>>
  /\ UNCHANGED <<variant, cfg, argv, req, sent, conf, nameIn, nameOut, jsonUrlReply, browser, context, navigated, clicked,
                 dl, dlFired, dlName, rs, resp, nResp, timer, winner,
                 fetched, downloads, posts, ts, clock,
                 err, cause, exitCode, diag, missed, replays>>

\* page.content() and the write of the HTML file: fs.writeFileSync is not
\* guarded in writeDebugArtifacts, its exception leaves the catch block
DbgHtml ==
  /\ pc = "dbgHtml"
  /\ \E contentOk \in BOOLEAN, writeOk \in BOOLEAN :
       IF Sequential(variant)
       THEN /\ debugFiles' = IF contentOk /\ writeOk
                             THEN Append(debugFiles, [kind |-> "html", stamp |-> ts])
                             ELSE debugFiles
            /\ pc' = "dbgEnd"
            /\ UNCHANGED <<err, diag>>
       ELSE IF writeOk
            THEN /\ debugFiles' = Append(debugFiles, [kind |-> "html", stamp |-> ts])
                 /\ pc' = IF variant = "replay" THEN "dbgJson" ELSE "dbgEnd"
                 /\ UNCHANGED <<err, diag>>
            ELSE /\ err' = "diagWrite"
                 /\ diag' = "done"
                 /\ pc' = "closeCtx"
                 /\ UNCHANGED debugFiles
  /\ UNCHANGED <<steps, inband, waits, dlDeadline, elapsed, errInfo>>
  /\ UNCHANGED <<variant, cfg, argv, req, sent, conf, nameIn, nameOut, jsonUrlReply, browser, context, navigated, clicked,
                 dl, dlFired, dlName, rs, resp, nResp, timer, winner,
                 fetched, downloads, posts, ts, clock,
                 cause, exitCode, missed, replays>>

\* run.js: fs.writeFileSync(jsonPath, ...) of the network log, not guarded either
DbgJson ==
  /\ pc = "dbgJson"
  /\ \E writeOk \in BOOLEAN :
       IF writeOk
       THEN /\ debugFiles' = Append(debugFiles, [kind |-> "json", stamp |-> ts])
            /\ pc' = "dbgEnd"
            /\ UNCHANGED <<err, diag>>
       ELSE /\ err' = "diagWrite"
            /\ diag' = "done"
            /\ pc' = "closeCtx"
            /\ UNCHANGED debugFiles
  /\ UNCHANGED <<steps, inband, waits, dlDeadline, elapsed, errInfo>>
  /\ UNCHANGED <<variant, cfg, argv, req, sent, conf, nameIn, nameOut, jsonUrlReply, browser, context, navigated, clicked,
                 dl, dlFired, dlName, rs, resp, nResp, timer, winner,
                 fetched, downloads, posts, ts, clock,
                 cause, exitCode, missed, replays>>

\* the diagnostics step returns: throw err (part_000 throws its error only now)
DbgEnd ==
  /\ pc = "dbgEnd"
  /\ diag' = "done"
  /\ err' = IF variant = "fallback" THEN "noArtifact" ELSE err
  /\ pc' = "closeCtx"
  /\ UNCHANGED <<steps, inband, waits, dlDeadline, elapsed, errInfo>>
  /\ UNCHANGED <<variant, cfg, argv, req, sent, conf, nameIn, nameOut, jsonUrlReply, browser, context, navigated, clicked,
                 dl, dlFired, dlName, rs, resp, nResp, timer, winner,
                 fetched, downloads, posts, debugFiles, ts, clock,
                 cause, exitCode, missed, replays>>

(* ----------------------------------------------------------------- teardown *)
\* a rejection of close() is swallowed by .catch(() => {}) in run.js, part_003
\* and the catch block of part_004; in the try block of part_004 it is thrown to
\* the catch block, in the finally block of part_000 and part_002 it leaves main()
CloseIsGuarded(v, e) == v \in {"replay", "race"} \/ (Sequential(v) /\ e # "none")

\* context.close()
CloseCtx ==
  /\ pc = "closeCtx"
  /\ context' = "closed"
  /\ dl' = IF dl = "armed" THEN "null" ELSE dl
  /\ rs' = IF rs = "armed" THEN "null" ELSE rs
  /\ \E ok \in BOOLEAN :
       IF ok \/ CloseIsGuarded(variant, err)
       THEN /\ pc' = "closeBrowser"
            /\ UNCHANGED <<err, cause>>
       ELSE IF Sequential(variant)
            THEN Raise("closeCtx")
            ELSE Reject("closeCtx")
  /\ UNCHANGED <<steps, inband, waits, dlDeadline, elapsed, errInfo>>
  /\ UNCHANGED <<variant, cfg, argv, req, sent, conf, nameIn, nameOut, jsonUrlReply, browser, navigated, clicked,
                 dlFired, dlName, resp, nResp, timer, winner,
                 fetched, downloads, posts, debugFiles, ts, clock,
                 exitCode, diag, missed, replays>>

\* browser.close()
CloseBrowser ==
  /\ pc = "closeBrowser"
  /\ browser' = "closed"
  /\ \E ok \in BOOLEAN :
       IF ok \/ CloseIsGuarded(variant, err)
       THEN /\ pc' = "settle"
            /\ UNCHANGED <<err, cause>>
       ELSE IF Sequential(variant)
            THEN Raise("closeBrowser")
            ELSE Reject("closeBrowser")
  /\ UNCHANGED <<steps, inband, waits, dlDeadline, elapsed, errInfo>>
  /\ UNCHANGED <<variant, cfg, argv, req, sent, conf, nameIn, nameOut, jsonUrlReply, context, navigated, clicked,
                 dl, dlFired, dlName, rs, resp, nResp, timer, winner,
                 fetched, downloads, posts, debugFiles, ts, clock,
                 exitCode, diag, missed, replays>>

\* main() has settled: process.exit(1) on an error, exit status 0 otherwise
Exit ==
  /\ pc = "settle"
  /\ err # "none" \/ timer # "armed"
  /\ exitCode' = ExitStatus(err)
  /\ pc' = "exited"
  /\ UNCHANGED <<steps, inband, waits, dlDeadline, elapsed, errInfo>>
  /\ UNCHANGED <<variant, cfg, argv, req, sent, conf, nameIn, nameOut, jsonUrlReply, browser, context, navigated, clicked,
                 dl, dlFired, dlName, rs, resp, nResp, timer, winner,
                 fetched, downloads, posts, debugFiles, ts, clock,
                 err, cause, diag, missed, replays>>

(* --------------------------------------- run.js: the request of the replay *)
\* the allow set of pickSafeHeaders
AllowList == {"accept", "accept-language", "content-type", "x-requested-with",
              "origin", "referer"}

\* header names an observed request can carry (no two agree in lower case)
HeaderNames == {"Accept", "accept-language", "Content-Type", "X-Requested-With",
                "origin", "referer", "cookie", "Authorization", "x-csrf-token"}

HeaderValue(n) == "value of " \o n

\* the export requests page.waitForRequest can hand to fetchLikeBrowser
ObservedRequests ==
  [url : {ExportUrl},
   method : {"GET", "POST"},
   headers : {[n \in S |-> HeaderValue(n)] : S \in SUBSET HeaderNames},
   data : {"", "format=csv"}]

\* (mutant: every header of the request is copied)
pickSafeHeaders_All(allHeaders) ==
  [key \in {ToLowerCase(k) : k \in DOMAIN allHeaders} |->
     allHeaders[CHOOSE k \in DOMAIN allHeaders : ToLowerCase(k) = key]]

\* pickSafeHeaders: the entries whose lower-cased name is in the allow set,
\* stored under the lower-cased name
pickSafeHeaders(allHeaders) ==
  LET kept == {k \in DOMAIN allHeaders : ToLowerCase(k) \in AllowList}
  IN  [key \in {ToLowerCase(k) : k \in kept} |->
         allHeaders[CHOOSE k \in kept : ToLowerCase(k) = key]]

\* the arguments fetchLikeBrowser hands to context.request.fetch;
\* req.allHeaders() that rejects yields {}
replayRequestOf(r, allHeadersFails) ==
  [url |-> r.url,
   method |-> r.method,
   headers |-> pickSafeHeaders(IF allHeadersFails THEN NoHeaders ELSE r.headers),
   data |-> r.data]

\* fetchLikeBrowser up to the call of context.request.fetch
BuildReplayRequest ==
  /\ req # NoReq
  /\ sent = NoReq
  /\ \E allHeadersFails \in BOOLEAN : sent' = replayRequestOf(req, allHeadersFails)
  /\ UNCHANGED <<steps, inband, waits, dlDeadline, elapsed, errInfo>>
  /\ UNCHANGED <<variant, cfg, argv, req, conf, nameIn, nameOut, jsonUrlReply, pc, browser, context, navigated, clicked,
                 dl, dlFired, dlName, rs, resp, nResp, timer, winner,
                 fetched, downloads, posts, debugFiles, ts, clock,
                 err, cause, exitCode, diag, missed, replays>>

(* ------------------------------------------------------------ specification *)
Next ==
  \/ LoadConfig \/ Launch \/ NewContext \/ NewPage
  \/ Goto \/ OpenExportUi \/ SelectFormat \/ LocateTrigger
  \/ ArmDownload \/ ArmResponse \/ Click \/ ClickDone
  \/ EnvDownload \/ EnvResponse \/ DownloadWaitEnds \/ ResponseWaitEnds \/ TimerFires
  \/ RaceStart \/ RaceBranch \/ AwaitDownload \/ AwaitResponse
  \/ MaybeClicks \/ FallbackClick \/ ArmDownload2 \/ AwaitDownload2 \/ NoDownload
  \/ SaveDownload \/ ReadBody \/ ReplayFetch \/ ReplayBranch \/ FetchUrl
  \/ Deliver \/ SinkReplies
  \/ Tick \/ DbgStart \/ DbgShot \/ DbgHtml \/ DbgJson \/ DbgEnd
  \/ CloseCtx \/ CloseBrowser \/ Exit

Spec == Init /\ [][Next]_vars

\* The steps that end by themselves: statements of main(), waits that carry a
\* timeout, the timer of the race.  The events of the page and the answer of
\* the sink are not among them: nothing obliges the site or the sink to act.
BoundedStep ==
  \/ LoadConfig \/ Launch \/ NewContext \/ NewPage
  \/ Goto \/ OpenExportUi \/ SelectFormat \/ LocateTrigger
  \/ ArmDownload \/ ArmResponse \/ Click \/ ClickDone
  \/ DownloadWaitEnds \/ ResponseWaitEnds \/ TimerFires
  \/ RaceStart \/ RaceBranch \/ AwaitDownload \/ AwaitResponse
  \/ MaybeClicks \/ FallbackClick \/ ArmDownload2 \/ AwaitDownload2 \/ NoDownload
  \/ SaveDownload \/ ReadBody \/ ReplayFetch \/ ReplayBranch \/ FetchUrl
  \/ Deliver
  \/ DbgStart \/ DbgShot \/ DbgHtml \/ DbgJson \/ DbgEnd
  \/ CloseCtx \/ CloseBrowser \/ Exit

\* the construction of the replay request for every observed export request
HeaderInit ==
  /\ variant = "replay"
  /\ cfg = [guestUrl |-> GuestUrl, webhookUrl |-> "https://hooks.example/n8n", debug |-> ""]
  /\ argv = <<>>
  /\ req \in ObservedRequests
  /\ sent = NoReq
  /\ conf = NoConf
  /\ nameIn = NoName
  /\ nameOut = NoName
  /\ InitRun

HeaderNext == BuildReplayRequest

(* ------------------------------- part_005: resolution of the configuration *)
\* process.argv.slice(2): every command line of at most MaxArgs words
CommandLines ==
  LET words == {"--guestUrl", "--guesturl", "--webhookUrl", "--debug", CliGuestUrl, "false"}
  IN  UNION {[1..n -> words] : n \in 0..MaxArgs}

\* the const declarations at the top of main() of part_005
ResolveConfig ==
  /\ conf = NoConf
  /\ conf' = [set |-> TRUE,
               guestUrl |-> GuestUrlOf(variant, argv, cfg),
               webhookUrl |-> WebhookUrlOf(variant, argv, cfg),
               debug |-> DebugOf(variant, argv, cfg)]
  /\ UNCHANGED <<steps, inband, waits, dlDeadline, elapsed, errInfo>>
  /\ UNCHANGED <<variant, cfg, argv, req, sent, nameIn, nameOut, jsonUrlReply, pc, browser,
                 context, navigated, clicked,
                 dl, dlFired, dlName, rs, resp, nResp, timer, winner,
                 fetched, downloads, posts, debugFiles, ts, clock,
                 err, cause, exitCode, diag, missed, replays>>

ArgInit ==
  /\ variant = "cli"
  /\ cfg \in Configs
  /\ argv \in CommandLines
  /\ req = NoReq
  /\ sent = NoReq
  /\ conf = NoConf
  /\ nameIn = NoName
  /\ nameOut = NoName
  /\ InitRun

ArgSpec == ArgInit /\ [][ResolveConfig]_vars

HeaderSpec == HeaderInit /\ [][HeaderNext]_vars

TypeOK ==
  /\ variant \in Variants
  /\ cfg \in Configs
  /\ browser \in {"none", "open", "closed"}
  /\ context \in {"none", "open", "closed"}
  /\ dl \in {"off", "armed", "got", "null"}
  /\ rs \in {"off", "armed", "got", "null"}
  /\ timer \in {"off", "armed", "fired"}
  /\ exitCode \in {-1, 0, 1}
  /\ diag \in {"none", "running", "done"}
  /\ clock \in 0..MaxClock
  /\ nResp \in 0..MaxResponses
  /\ argv \in Argvs(variant)
  /\ inband \in {"unread", "empty", "bytes", "failed"}
  /\ waits \in 0..2
  /\ elapsed \in 0..2
  /\ \A i \in DOMAIN posts : posts[i].status \in Statuses \cup {Pending}

(* ------------------------------------ the name and the path of the artifact *)
CharAt(s, i) == IF i >= 1 /\ i <= Len(s) THEN SubSeq(s, i, i) ELSE ""

\* \s of the regular expressions (blank and tab)
IsSpace(c) == c \in {" ", "\t"}

\* the position after the white space that starts at i
RECURSIVE SkipSpaces(_, _)
SkipSpaces(s, i) == IF IsSpace(CharAt(s, i)) THEN SkipSpaces(s, i + 1) ELSE i

\* the position after the longest run, from i on, of characters outside stops
RECURSIVE RunEnd(_, _, _)
RunEnd(s, i, stops) ==
  IF i > Len(s) \/ CharAt(s, i) \in stops THEN i ELSE RunEnd(s, i + 1, stops)

\* the literal lit stands at position i, letter case ignored (flag i)
MatchCI(s, i, lit) ==
  /\ i >= 1
  /\ i + Len(lit) - 1 <= Len(s)
  /\ ToLowerCase(SubSeq(s, i, i + Len(lit) - 1)) = ToLowerCase(lit)

\* String.prototype.trim: from the first to the last character that is not
\* white space
trim(s) ==
  LET inked == {i \in 1..Len(s) : ~IsSpace(CharAt(s, i))}
  IN  IF inked = {} THEN ""
      ELSE SubSeq(s, CHOOSE i \in inked : \A j \in inked : i <= j,
                     CHOOSE i \in inked : \A j \in inked : i >= j)

\* .replace(...) with the expression (^quote | quote$), flag g: a leading and
\* a trailing quote are removed
stripQuotes(s) ==
  LET t == IF CharAt(s, 1) = "\"" THEN SubSeq(s, 2, Len(s)) ELSE s
  IN  IF CharAt(t, Len(t)) = "\"" THEN SubSeq(t, 1, Len(t) - 1) ELSE t

\* the byte written %XX at position i, -1 when no such escape stands there
ByteAt(s, i) ==
  LET lower == "0123456789abcdef"
      upper == "0123456789ABCDEF"
      Digits(c) == {k \in 1..16 : c = SubSeq(lower, k, k) \/ c = SubSeq(upper, k, k)}
      hi == Digits(CharAt(s, i + 1))
      lo == Digits(CharAt(s, i + 2))
  IN  IF CharAt(s, i) = "%" /\ hi # {} /\ lo # {}
      THEN 16 * ((CHOOSE k \in hi : TRUE) - 1) + ((CHOOSE k \in lo : TRUE) - 1)
      ELSE -1

\* length of the UTF-8 sequence a byte starts, 0 for a byte that starts none
Utf8Length(b) ==
  IF b >= 0 /\ b <= 127 THEN 1
  ELSE IF b >= 194 /\ b <= 223 THEN 2
  ELSE IF b >= 224 /\ b <= 239 THEN 3
  ELSE IF b >= 240 /\ b <= 244 THEN 4
  ELSE 0

\* the character of a code point, from the tables of U+0020..U+005F,
\* U+0061..U+007E and U+00C0..U+00FF; a code point outside them is written
\* <U+n> with n in decimal
CharOf(cp) ==
  LET low == " !\"#$%&'()*+,-./0123456789:;<=>?@ABCDEFGHIJKLMNOPQRSTUVWXYZ[\\]^_"
      high == "abcdefghijklmnopqrstuvwxyz{|}~"
      latin == "ÀÁÂÃÄÅÆÇÈÉÊËÌÍÎÏÐÑÒÓÔÕÖ×ØÙÚÛÜÝÞßàáâãäåæçèéêëìíîïðñòóôõö÷øùúûüýþÿ"
  IN  IF cp >= 32 /\ cp <= 95 THEN SubSeq(low, cp - 31, cp - 31)
      ELSE IF cp >= 97 /\ cp <= 126 THEN SubSeq(high, cp - 96, cp - 96)
      ELSE IF cp >= 192 /\ cp <= 255 THEN SubSeq(latin, cp - 191, cp - 191)
      ELSE "<U+" \o ToString(cp) \o ">"

\* decodeURIComponent from position i on: ok is FALSE where it throws URIError
\* (a % without two hex digits, bytes that are not a UTF-8 sequence)
RECURSIVE decodeFrom(_, _)
decodeFrom(s, i) ==
  IF i > Len(s) THEN [ok |-> TRUE, value |-> ""]
  ELSE IF CharAt(s, i) # "%"
       THEN LET rest == decodeFrom(s, i + 1)
            IN  [ok |-> rest.ok, value |-> CharAt(s, i) \o rest.value]
       ELSE LET n == Utf8Length(ByteAt(s, i))
                b(k) == ByteAt(s, i + 3 * k)
                cp == IF n = 1 THEN b(0)
                      ELSE IF n = 2 THEN (b(0) - 192) * 64 + (b(1) - 128)
                      ELSE IF n = 3
                           THEN (b(0) - 224) * 4096 + (b(1) - 128) * 64 + (b(2) - 128)
                      ELSE (b(0) - 240) * 262144 + (b(1) - 128) * 4096
                           + (b(2) - 128) * 64 + (b(3) - 128)
            IN  IF n = 0 \/ \E k \in 1..(n - 1) : ~(b(k) >= 128 /\ b(k) <= 191)
                THEN [ok |-> FALSE, value |-> ""]
                ELSE LET rest == decodeFrom(s, i + 3 * n)
                     IN  [ok |-> rest.ok, value |-> CharOf(cp) \o rest.value]

decodeURIComponent(s) == decodeFrom(s, 1)

\* capture 1 of /filename\*\s*=\s*UTF-8''([^;]+)/i tried at position i, the
\* empty string for no match
ExtendedAt(cd, i) ==
  LET eq == SkipSpaces(cd, i + 9)
      cs == SkipSpaces(cd, eq + 1)
      from == cs + 7
      to == RunEnd(cd, from, {";"})
  IN  IF /\ MatchCI(cd, i, "filename*")
         /\ CharAt(cd, eq) = "="
         /\ MatchCI(cd, cs, "UTF-8''")
         /\ to > from
      THEN SubSeq(cd, from, to - 1)
      ELSE ""

\* capture 2 of the second expression (filename, \s*, =, \s*, an optional
\* quote, one or more characters other than quote and semicolon, the quote
\* again if there was one; flag i) tried at position i, the empty string for
\* no match: the quoted alternative, then the unquoted one, then the unquoted
\* one after \s* has given a blank back
PlainAt(cd, i) ==
  LET eq == SkipSpaces(cd, i + 8)
      from == SkipSpaces(cd, eq + 1)
      qto == RunEnd(cd, from + 1, {"\"", ";"})
      to == RunEnd(cd, from, {"\"", ";"})
  IN  IF ~(MatchCI(cd, i, "filename") /\ CharAt(cd, eq) = "=") THEN ""
      ELSE IF CharAt(cd, from) = "\"" /\ qto > from + 1 /\ CharAt(cd, qto) = "\""
           THEN SubSeq(cd, from + 1, qto - 1)
      ELSE IF to > from THEN SubSeq(cd, from, to - 1)
      ELSE IF from > eq + 1 THEN SubSeq(cd, from - 1, from - 1)
      ELSE ""

\* capture 1 of the first expression (filename=, a quote, one or more
\* characters other than the quote, a quote; flag i) tried at position i
QuotedAt(cd, i) ==
  LET to == RunEnd(cd, i + 10, {"\""})
  IN  IF MatchCI(cd, i, "filename=\"") /\ to > i + 10 /\ CharAt(cd, to) = "\""
      THEN SubSeq(cd, i + 10, to - 1)
      ELSE ""

\* capture 1 of /filename=([^;]+)/i tried at position i
UnquotedAt(cd, i) ==
  LET to == RunEnd(cd, i + 9, {";"})
  IN  IF MatchCI(cd, i, "filename=") /\ to > i + 9
      THEN SubSeq(cd, i + 9, to - 1)
      ELSE ""

\* the capture of an expression tried at position i
CaptureAt(kind, cd, i) ==
  IF kind = "extended" THEN ExtendedAt(cd, i)
  ELSE IF kind = "plain" THEN PlainAt(cd, i)
  ELSE IF kind = "quoted" THEN QuotedAt(cd, i)
  ELSE UnquotedAt(cd, i)

\* cd.match(...): the capture of the leftmost match, the empty string when the
\* expression matches nowhere
FirstMatch(kind, cd) ==
  LET hits == {i \in 1..Len(cd) : CaptureAt(kind, cd, i) # ""}
  IN  IF hits = {} THEN ""
      ELSE CaptureAt(kind, cd, CHOOSE i \in hits : \A j \in hits : i <= j)

\* filenameFromContentDisposition of run.js and part_003 ("" stands for null)
filenameFromContentDisposition(cd) ==
  IF cd = "" THEN ""
  ELSE IF FirstMatch("extended", cd) # ""
       THEN LET raw == stripQuotes(trim(FirstMatch("extended", cd)))
                dec == decodeURIComponent(raw)
            IN  IF dec.ok THEN dec.value ELSE raw
       ELSE trim(FirstMatch("plain", cd))

\* pickCsvFilenameFromHeaders of part_004 and part_005 ("" stands for null)
pickCsvFilenameFromHeaders(cd) ==
  LET m == IF FirstMatch("quoted", cd) # "" THEN FirstMatch("quoted", cd)
           ELSE FirstMatch("unquoted", cd)
  IN  trim(stripQuotes(m))

OoxmlType == "application/vnd.openxmlformats-officedocument.spreadsheetml.sheet"
XlsType == "application/vnd.ms-excel"

\* the extension of the preferred format
PreferredExt(preferredFormat) == IF preferredFormat = "CSV" THEN "csv" ELSE "xlsx"

\* (mutant: the Content-Type is not looked at)
extFromContentType_Preferred(ct, preferredFormat) == PreferredExt(preferredFormat)

\* extFromContentType of run.js
extFromContentType(ct, preferredFormat) ==
  LET t == ToLowerCase(ct)
  IN  IF Includes(t, "text/csv") THEN "csv"
      ELSE IF Includes(t, "spreadsheetml") THEN "xlsx"
      ELSE IF Includes(t, XlsType) THEN "xls"
      ELSE PreferredExt(preferredFormat)

\* extFromContentType of part_003: the whole OOXML type is looked for
extFromContentTypeExact(ct, preferredFormat) ==
  LET t == ToLowerCase(ct)
  IN  IF Includes(t, "text/csv") THEN "csv"
      ELSE IF Includes(t, OoxmlType) THEN "xlsx"
      ELSE IF Includes(t, XlsType) THEN "xls"
      ELSE PreferredExt(preferredFormat)

\* the segments of a path between its slashes, empty ones dropped
RECURSIVE Segments(_)
Segments(p) ==
  IF p = "" THEN <<>>
  ELSE LET to == RunEnd(p, 1, {"/"})
           rest == Segments(SubSeq(p, to + 1, Len(p)))
       IN  IF to = 1 THEN rest ELSE <<SubSeq(p, 1, to - 1)>> \o rest

\* path.normalize on the segments of an absolute path: "." is dropped, ".."
\* removes the segment before it
RECURSIVE Resolve(_, _)
Resolve(segs, stack) ==
  IF segs = <<>> THEN stack
  ELSE IF segs[1] = "." THEN Resolve(Tail(segs), stack)
  ELSE IF segs[1] = ".."
       THEN Resolve(Tail(segs), IF stack = <<>> THEN stack ELSE SubSeq(stack, 1, Len(stack) - 1))
  ELSE Resolve(Tail(segs), Append(stack, segs[1]))

RECURSIVE JoinSegments(_)
JoinSegments(segs) ==
  IF segs = <<>> THEN "" ELSE "/" \o segs[1] \o JoinSegments(Tail(segs))

\* path.join(dir, name) for an absolute dir (POSIX)
pathJoin(dir, name) ==
  LET segs == Resolve(Segments(dir \o "/" \o name), <<>>)
  IN  IF segs = <<>> THEN "/" ELSE JoinSegments(segs)

\* path.basename
basename(p) ==
  LET segs == Segments(p) IN IF segs = <<>> THEN "" ELSE segs[Len(segs)]

\* path.resolve("downloads") / path.join(process.cwd(), "downloads")
DownloadsDir == "/app/downloads"

\* nowStamp() at the moment of the capture
Stamp == "2026-01-01T00_00_00_000Z"

\* download.suggestedFilename(): the browser's name for the download, possibly empty
SuggestedNames == {"", "rankings.csv"}

\* file names the target application can send in a plain filename parameter
HeaderTokens == {"report.csv", "my report.csv", "a;b.csv", "../report.csv"}

\* tokens of the extended parameter, with the text they stand for where they
\* can be percent-decoded
ExtendedTokens ==
  {[raw |-> "r%C3%A9sum%C3%A9.csv", text |-> "résumé.csv", decodable |-> TRUE],
   [raw |-> "report%20v2.csv", text |-> "report v2.csv", decodable |-> TRUE],
   [raw |-> "bad%ZZ.csv", text |-> "", decodable |-> FALSE],
   [raw |-> "%E9t%E9.csv", text |-> "", decodable |-> FALSE]}

NoToken == [raw |-> "", text |-> "", decodable |-> TRUE]

\* the Content-Disposition header of a form
HeaderOf(form, token, ext) ==
  IF form = "none" THEN ""
  ELSE IF form = "bare" THEN "attachment"
  ELSE IF form = "quoted" THEN "attachment; filename=\"" \o token \o "\""
  ELSE IF form = "unquoted" THEN "attachment; filename=" \o token \o "; size=5"
  ELSE IF form = "extended" THEN "attachment; filename*=UTF-8''" \o ext.raw
  ELSE "attachment; filename=\"" \o token \o "\"; filename*=UTF-8''" \o ext.raw

\* the Content-Disposition headers considered, each with the parts it is made of
Dispositions ==
  {[form |-> f, token |-> t, ext |-> e, cd |-> HeaderOf(f, t, e)] :
     f \in {"quoted", "unquoted"}, t \in HeaderTokens, e \in {NoToken}}
  \cup {[form |-> f, token |-> t, ext |-> e, cd |-> HeaderOf(f, t, e)] :
     f \in {"extended"}, t \in {""}, e \in ExtendedTokens}
  \cup {[form |-> f, token |-> t, ext |-> e, cd |-> HeaderOf(f, t, e)] :
     f \in {"both"}, t \in HeaderTokens, e \in ExtendedTokens}
  \cup {[form |-> f, token |-> t, ext |-> e, cd |-> HeaderOf(f, t, e)] :
     f \in {"none", "bare"}, t \in {""}, e \in {NoToken}}

\* the Content-Type headers considered
CsvTypes == {"text/csv", "text/csv; charset=utf-8", "TEXT/CSV"}
FileTypes == CsvTypes \cup {OoxmlType, XlsType, "application/octet-stream", JsonType, ""}

\* EXPORT_FORMAT, upper-cased
Formats == {"CSV", "XLSX"}

\* the branches that save an artifact
CapturePaths(v) ==
  IF v = "replay" THEN {"download", "replay", "url"}
  ELSE IF v \in {"race", "seq", "cli"} THEN {"download", "response"}
  ELSE {"download"}

\* the condition under which the branch is taken: the predicate of the listener
\* (part_003, part_004, part_005; the URL is an export URL), step 5 of run.js
Saves(v, path, ct, cd) ==
  IF path = "response" /\ Sequential(v) THEN Includes(ToLowerCase(ct), "text/csv")
  ELSE IF path \in {"response", "replay"} THEN isAttachment(cd) \/ looksLikeFileType(ct)
  ELSE TRUE

\* what a capture branch has in hand when it names the artifact
NameInputs(v) ==
  {[path |-> "download", suggested |-> s, ct |-> "", format |-> f,
    disp |-> [form |-> "none", token |-> "", ext |-> NoToken, cd |-> ""]] :
     s \in SuggestedNames, f \in Formats}
  \cup {i \in [path : CapturePaths(v) \ {"download"}, suggested : {""},
               disp : Dispositions, ct : FileTypes, format : Formats] :
          Saves(v, i.path, i.ct, i.disp.cd)}

\* the literal `method` of each branch
MethodOf(path) ==
  IF path = "download" THEN "download-event"
  ELSE IF path = "response" THEN "attachment-response"
  ELSE IF path = "replay" THEN "request-fetch-bytes"
  ELSE "json-to-download-url"

\* suggestedName / filename of the branch
ArtifactName(v, i) ==
  IF i.path = "download"
  THEN IF v \in {"replay", "race"} THEN Or(i.suggested, "export." \o PreferredExt(i.format))
       ELSE IF Sequential(v) THEN Or(i.suggested, "export-" \o Stamp \o ".csv")
       ELSE i.suggested
  ELSE IF Sequential(v)
       THEN Or(pickCsvFilenameFromHeaders(i.disp.cd), "export-" \o Stamp \o ".csv")
       ELSE IF v = "race"
            THEN Or(filenameFromContentDisposition(i.disp.cd),
                    "export." \o extFromContentTypeExact(i.ct, i.format))
            ELSE Or(filenameFromContentDisposition(i.disp.cd),
                    "export." \o extFromContentType(i.ct, i.format))

\* the file the branch writes and the fields it hands to the upload: run.js,
\* part_002, part_003 and part_000 send extraFields.filename = suggestedName,
\* part_004 and part_005 send x-filename = path.basename(filePath)
NameOf(v, i) ==
  LET name == ArtifactName(v, i)
      filePath == pathJoin(DownloadsDir, name)
  IN  [path |-> i.path,
       name |-> name,
       filePath |-> filePath,
       filename |-> IF Sequential(v) THEN basename(filePath) ELSE name,
       method |-> MethodField(v, MethodOf(i.path))]

\* the naming of the artifact in a capture branch
DeriveName ==
  /\ nameIn # NoName
  /\ nameOut = NoName
  /\ nameOut' = NameOf(variant, nameIn)
  /\ UNCHANGED <<steps, inband, waits, dlDeadline, elapsed, errInfo>>
  /\ UNCHANGED <<variant, cfg, argv, req, sent, conf, nameIn, jsonUrlReply, pc, browser,
                 context, navigated, clicked,
                 dl, dlFired, dlName, rs, resp, nResp, timer, winner,
                 fetched, downloads, posts, debugFiles, ts, clock,
                 err, cause, exitCode, diag, missed, replays>>

NameInit ==
  /\ variant \in Variants
  /\ cfg = [guestUrl |-> GuestUrl, webhookUrl |-> "https://hooks.example/n8n", debug |-> ""]
  /\ argv = <<>>
  /\ req = NoReq
  /\ sent = NoReq
  /\ conf = NoConf
  /\ nameIn \in NameInputs(variant)
  /\ nameOut = NoName
  /\ InitRun

NameSpec == NameInit /\ [][DeriveName]_vars

(* ------------------------------------------------------------------ claims *)
Exited == pc = "exited"

\* failures of the run proper: UI interaction, capture, delivery
RunFailures == {"ui", "noArtifact", "emptyBody", "body", "noFile", "replay", "urlFetch", "delivery"}

Count(files, kind) == Cardinality({i \in DOMAIN files : files[i].kind = kind})

\* C1 as stated: a finished run has written at most one artifact file and has
\* made as many delivery attempts (POSTs) as it has written artifacts.
C1_AsStated ==
  Exited => (Len(downloads) <= 1 /\ Len(posts) = Len(downloads))

\* C1 amended: at every moment at most one artifact file is written and there
\* are never more delivery attempts than written artifacts (so none before the
\* capture); a run that ends successfully has written exactly one artifact and
\* has attempted exactly one delivery when a webhook URL is configured, none
\* when it is not.
C1_ArtifactAndDelivery ==
  /\ Len(downloads) <= 1
  /\ Len(posts) <= Len(downloads)
  /\ (Exited /\ exitCode = 0) =>
        /\ Len(downloads) = 1
        /\ Len(posts) = IF cfg.webhookUrl # "" THEN 1 ELSE 0

C1_Witness ==
  Exited /\ exitCode = 0 /\ Len(downloads) = 1 /\ Len(posts) = 1

\* C2: in a run of the response-listening variants with a webhook configured in
\* which the trigger click went through and both a download event and a matching
\* response arrived, the finished run has written exactly one file and made
\* exactly one POST.
C2_BothOccur ==
  (/\ Exited
   /\ variant \in {"race", "seq"}
   /\ cfg.webhookUrl # ""
   /\ cause # "ui"
   /\ dl = "got"
   /\ rs = "got")
     => (Len(downloads) = 1 /\ Len(posts) = 1)

\* C3: no download event occurs after a click while no listener for it has
\* been registered.
C3_ArmedBeforeClick == ~missed

\* C4: the run never sits waiting for the download listener while the response
\* listener already holds a usable result, and a run in which a listener
\* delivered a usable result before the overall timer fired does not fail for
\* want of an artifact.
C4_UsableResultWins ==
  /\ ~(pc = "awaitDownload" /\ dl = "armed" /\ rs = "got")
  /\ ((dl = "got" \/ rs = "got") /\ timer # "fired") => err # "noArtifact"

\* C5: a run that fails on an empty body of the matched response has made
\* exactly one replay fetch, and no artifact file of zero bytes is ever written
\* or delivered.
C5_EmptyBodyReplay ==
  /\ cause = "emptyBody" => replays = 1
  /\ \A i \in DOMAIN downloads : downloads[i].len > 0
  /\ \A i \in DOMAIN posts : posts[i].len > 0

\* C6: a response with an image content type is never matched by the capture
\* predicate, and no file saved from a response has an image content type.
C6_NoImageArtifact ==
  /\ (variant \in {"race", "seq"} /\ rs = "got") => ~IsImage(resp.ct)
  /\ \A i \in DOMAIN downloads : ~IsImage(downloads[i].ct)

\* C7: a run that failed in UI interaction, capture or delivery after the page
\* had navigated has left exactly one screenshot and exactly one HTML file, both
\* with the same timestamp.
C7_DebugPair ==
  (Exited /\ navigated /\ cause \in RunFailures) =>
     /\ Count(debugFiles, "png") = 1
     /\ Count(debugFiles, "html") = 1
     /\ \A i, j \in DOMAIN debugFiles : debugFiles[i].stamp = debugFiles[j].stamp

\* C8: when the process exits after the browser was launched, browser.close()
\* has been called.
C8_BrowserClosed ==
  (Exited /\ browser # "none") => browser = "closed"

\* C9: no run terminates with the error of a failed diagnostic write in place
\* of the error that caused the failure.
C9_DiagnosticsDoNotMask ==
  Exited => err # "diagWrite"

Range(f) == {f[i] : i \in DOMAIN f}

\* no --guestUrl / --guesturl flag and no SE_RANKING_GUEST_URL
GuestAbsent ==
  /\ cfg.guestUrl = ""
  /\ \A i \in DOMAIN argv : argv[i] \notin {"--guestUrl", "--guesturl"}

\* C11: in a run without a guest URL, once the configuration has been read the
\* run has ended with a configuration error: no browser was launched, nothing
\* was navigated to, no POST was made, no debug file was written, and the exit
\* status is non-zero.
C11_MissingGuestUrl ==
  (GuestAbsent /\ pc # "config") =>
     /\ cause = "config"
     /\ pc \in {"settle", "exited"}
     /\ browser = "none"
     /\ context = "none"
     /\ ~navigated
     /\ posts = <<>>
     /\ debugFiles = <<>>
     /\ diag = "none"
     /\ Exited => exitCode = 1

C11_Witness ==
  Exited /\ GuestAbsent /\ variant = "cli" /\ argv # <<>> /\ exitCode = 1

\* C12: a run that entered the capture step and saw neither a download event
\* nor a matching response (request) ends failed for want of an artifact, with
\* a non-zero status; and whenever a run fails for want of an artifact, no more
\* than one timeout period has passed since its listeners were armed.
C12_NoArtifactInTime ==
  /\ (Exited /\ "capturing" \in Range(steps) /\ dl # "got" /\ rs # "got") =>
        (cause = "noArtifact" /\ exitCode # 0)
  /\ cause = "noArtifact" => elapsed <= 1

\* C13: a run makes at most one POST; a success status leaves the run delivered
\* and without a delivery error; a failure status makes the run fail with an
\* error that carries that status and at most SliceLimit characters of the
\* sink's response text.
C13_OnePost ==
  /\ Len(posts) <= 1
  /\ \A i \in DOMAIN posts :
       /\ IsOk(posts[i].status) => ("delivered" \in Range(steps) /\ cause # "delivery")
       /\ (posts[i].status \notin {Pending, 0} /\ ~IsOk(posts[i].status)) =>
             /\ cause = "delivery"
             /\ errInfo.status = posts[i].status
             /\ errInfo.body <= SliceLimit

\* C14: a replay request has been issued only if the in-band body of a matched
\* response was read and found empty; with a download event or a non-empty
\* in-band body at hand no replay request is issued.
C14_ReplayOnlyAfterEmptyBody ==
  /\ replays > 0 => inband = "empty"
  /\ (dl = "got" \/ inband = "bytes") => replays = 0

\* C15: the request handed to the request client has the method, URL and body
\* of the observed request, and each of its headers is an allow-listed header
\* of the observed request with its value.
C15_ReplayRequest ==
  sent # NoReq =>
     /\ sent.method = req.method
     /\ sent.url = req.url
     /\ sent.data = req.data
     /\ DOMAIN sent.headers \subseteq AllowList
     /\ \A k \in DOMAIN sent.headers :
          \E n \in DOMAIN req.headers :
             ToLowerCase(n) = k /\ req.headers[n] = sent.headers[k]

C15_Witness ==
  /\ sent # NoReq
  /\ {"cookie", "Authorization", "Content-Type"} \subseteq DOMAIN req.headers
  /\ "content-type" \in DOMAIN sent.headers
  /\ req.method = "POST"
  /\ req.data # ""

\* C16: a response matched by the response listener has a URL with an
\* export/download marker and, in addition, an attachment header or a known
\* file content type.
C16_MarkerAndHeaders ==
  (HasSecondListener(variant) /\ variant # "replay" /\ rs = "got") =>
     /\ looksLikeExportUrl(resp.url)
     /\ isAttachment(resp.cd) \/ looksLikeFileType(resp.ct)

\* the states of a run in the order of the state machine
StateOrder == <<"navigated", "export-ui-opened", "format-selected", "triggered",
                "capturing", "captured", "delivered">>

\* C17: the steps a run has passed are an initial part of the order navigated,
\* export UI opened, format selected, triggered, capturing, captured,
\* delivered; and a POST is made only after the artifact has been written.
C17_StepOrder ==
  /\ Len(steps) <= Len(StateOrder)
  /\ steps = SubSeq(StateOrder, 1, Len(steps))
  /\ Len(posts) > 0 => (Len(downloads) > 0 /\ "captured" \in Range(steps))

\* the part of main() that runs after a failure
FailureTail == {"catch", "dbgStart", "dbgShot", "dbgHtml", "dbgJson", "dbgEnd",
                "closeCtx", "closeBrowser", "settle", "exited"}

\* C18: a run registers the capture wait at most once and posts at most once,
\* and after the first failure of a step it only runs its failure handling.
C18_NoRetry ==
  /\ waits <= 1
  /\ Len(posts) <= 1
  /\ cause # "none" => pc \in FailureTail

\* C19: once main() has settled (delivered or failed), no capture listener and
\* no race timer is pending.
C19_NothingPending ==
  pc \in {"settle", "exited"} =>
     (dl # "armed" /\ rs # "armed" /\ timer # "armed")

\* C20: in every state before the exit a step that ends by itself is enabled (a
\* statement of main(), a wait that carries a timeout, the timer of the race):
\* the run never depends on the page or on the sink alone to go on.
C20_EveryWaitBounded == ~Exited => ENABLED BoundedStep

\* C21: a run that has a guest URL and no webhook URL is not rejected as a
\* configuration error, makes no delivery attempt, and when nothing else fails
\* it ends with exit status 0 and one saved artifact.
C21_WebhookOptional ==
  (GuestUrlOf(variant, argv, cfg) # "" /\ WebhookUrlOf(variant, argv, cfg) = "") =>
     /\ cause # "config"
     /\ posts = <<>>
     /\ (Exited /\ cause = "none") => (exitCode = 0 /\ Len(downloads) = 1)

\* C27: with debug-artifact capture disabled by the configuration (--debug
\* false, or DEBUG=false in the environment and no --debug flag) a run writes
\* no file to the debug directory; with it enabled a run that failed inside
\* the try block has gone through the step that writes the debug artifacts.
C27_DebugSwitch ==
  LET flag == IF variant = "cli" THEN Field(parseArgs(argv), "debug") ELSE ""
      DebugDisabled == /\ Sequential(variant)
                       /\ flag = "false" \/ (flag = "" /\ cfg.debug = "false")
  IN
  /\ DebugDisabled => debugFiles = <<>>
  /\ (~DebugDisabled /\ HasCatch(variant) /\ Exited /\ cause \in RunFailures) => diag = "done"

\* C28: in the request-replay variant, once the replayed request got a
\* successful application/json reply whose body was read and holds a download
\* URL beginning with http, the run goes on to fetch that URL: it does not stop
\* with "no file received" and saves nothing under another capture method.
C28_JsonDownloadUrl ==
  ( /\ variant = "replay"
    /\ jsonUrlReply
    /\ fetched.ct = JsonType /\ fetched.cd = "" /\ fetched.buffer = "bytes"
    /\ pc # "replayBranch" ) =>
     /\ cause # "noFile"
     /\ \A i \in DOMAIN downloads : downloads[i].method = "json-to-download-url"

\* C26: for each key of part_005 that has both a flag and an environment
\* variable (guest URL, webhook URL, debug) the resolved value is one given on
\* the command line whenever a flag of the key is present, and the value of the
\* environment (or the default) when none is.
C26_CliPrecedence ==
  LET \* the values the command line gives for a key: the word after each
      \* occurrence of one of its flags, "true" for a flag without a value
      CliValues(flags) ==
        {IF i < Len(argv) /\ ~StartsWith(argv[i + 1], "--") THEN argv[i + 1] ELSE "true" :
           i \in {k \in DOMAIN argv : argv[k] \in flags}}
  IN
  conf.set =>
    /\ IF CliValues({"--guestUrl", "--guesturl"}) # {}
       THEN conf.guestUrl \in CliValues({"--guestUrl", "--guesturl"})
       ELSE conf.guestUrl = cfg.guestUrl
    /\ IF CliValues({"--webhookUrl"}) # {}
       THEN conf.webhookUrl \in CliValues({"--webhookUrl"})
       ELSE conf.webhookUrl = cfg.webhookUrl
    /\ IF CliValues({"--debug"}) # {}
       THEN conf.debug \in {ToLowerCase(v) = "true" : v \in CliValues({"--debug"})}
       ELSE conf.debug = (cfg.debug # "false")

C26_Witness ==
  /\ conf.set
  /\ argv = <<"--guestUrl", CliGuestUrl>>
  /\ cfg.guestUrl = GuestUrl
  /\ conf.guestUrl = CliGuestUrl

\* C22: on the download-event path the name of the artifact is the suggested
\* filename of the event when there is one, and otherwise export.<ext> with
\* <ext> the extension of the run's preferred format.
C22_DownloadName ==
  nameOut.path = "download" =>
     nameOut.name = IF nameIn.suggested # "" THEN nameIn.suggested
                    ELSE "export." \o (IF nameIn.format = "CSV" THEN "csv" ELSE "xlsx")

\* C23: for a matched response whose Content-Disposition has a quoted filename
\* parameter the name of the artifact is exactly the text between the quotes
\* (report.csv for filename="report.csv"); for an unquoted one it is the token
\* up to the next semicolon.
C23_PlainFilename ==
  nameOut.path \in {"response", "replay", "url"} =>
     /\ nameIn.disp.form = "quoted" => nameOut.name = nameIn.disp.token
     /\ nameIn.disp.form = "unquoted" => nameOut.name = SubSeq(nameIn.disp.token, 1, RunEnd(nameIn.disp.token, 1, {";"}) - 1)

\* C24: for a matched response whose Content-Disposition has the extended
\* parameter filename*=UTF-8''<token>, alone or next to a plain filename
\* parameter, the name of the artifact is the percent-decoded token, and the
\* token itself when it cannot be decoded.
C24_ExtendedFilename ==
  (nameOut.path \in {"response", "replay", "url"} /\ nameIn.disp.form \in {"extended", "both"}) =>
     nameOut.name = IF nameIn.disp.ext.decodable THEN nameIn.disp.ext.text
                    ELSE nameIn.disp.ext.raw

C29_InsideDownloads ==
  (nameOut.path # "none" /\ nameOut.name # "") =>
     StartsWith(nameOut.filePath, DownloadsDir \o "/")

\* C30: the capture-method field of a delivery names the branch that saved the
\* file (download-event, attachment-response, request-fetch-bytes,
\* json-to-download-url), and the filename field is the name of the file that
\* was written.
C30_FieldsNameTheCapture ==
  (nameOut.path # "none" /\ nameOut.name # "") =>
     /\ nameOut.method = "download-event" => nameIn.path = "download"
     /\ nameOut.method = "attachment-response" => nameIn.path = "response"
     /\ nameOut.method = "request-fetch-bytes" => nameIn.path = "replay"
     /\ nameOut.method = "json-to-download-url" => nameIn.path = "url"
     /\ nameOut.filename = basename(nameOut.filePath)
====
